---- MODULE Spec2Model ----
(***************************************************************************)
(* Model of the inventory data-access layer (src/src/database.py) and of   *)
(* the callers that drive it (src/src/components/*.py).                    *)
(*                                                                         *)
(* Strings are sequences of character codes, so that strip(), the regular  *)
(* expressions of search_items, the strftime format of last_updated and    *)
(* the byte-wise string order the backing store sorts by are computed and  *)
(* not assumed.  A document is a function from field names to values; the  *)
(* collection is a set of documents, each with its own "_id".              *)
(***************************************************************************)
EXTENDS Integers, Sequences, FiniteSets, TLC

VARIABLES
    store,      \* the inventory_items collection: a set of documents
    now,        \* the wall clock, as the civil time est_time of get_formatted_time
    nextId,     \* the next "_id" the store hands out on insert
    out,        \* per client: the outcome of its latest completed call
    pc,         \* per client: where it is inside a multi-round-trip call
    req,        \* per client: the arguments of the call in progress
    racing,     \* history: the clients whose add_item calls overlap undisturbed
    scan,       \* a caller paging through search_items, page by page
    csv,        \* the file the call that just ended wrote, if it was an export
    retry,      \* the wrapper of retry_operation in the latest call: its local
                \* variables, the runs of the function and the sleeps it took
    got,        \* what the latest get_image or get_statistics call returned
    screen      \* the search screen: its page variables, its text field, the
                \* cards it shows, and whether a delayed search is scheduled

vars ==
    <<store, now, nextId, out, pc, req, racing, scan, csv, retry, got, screen>>

----------------------------------------------------------------------------
(* Bounds of the model *)

\* successful inserts over a run ("_id"s handed out)
MaxInserts == 2

\* the page size of the search screen: 20 in SearchInterface.__init__, scaled
\* down to the stores of the model so that a search has more than one page
items_per_page == 1

----------------------------------------------------------------------------
(* Strings *)

\* str.strip(): the alphabet of the model has one whitespace character, " "
RECURSIVE lstrip(_)
lstrip(s) == IF s # <<>> /\ Head(s) = 32 THEN lstrip(Tail(s)) ELSE s

RECURSIVE rstrip(_)
rstrip(s) ==
    IF s # <<>> /\ s[Len(s)] = 32 THEN rstrip(SubSeq(s, 1, Len(s) - 1)) ELSE s

strip(s) == rstrip(lstrip(s))

\* case folding of the regex option 'i' (ASCII letters)
lower(ch) == IF ch >= 65 /\ ch <= 90 THEN ch + 32 ELSE ch

\* the store's order on strings: by character code, a proper prefix first
RECURSIVE StrLess(_, _)
StrLess(a, b) ==
    IF b = <<>> THEN FALSE
    ELSE IF a = <<>> THEN TRUE
    ELSE IF Head(a) # Head(b) THEN Head(a) < Head(b)
    ELSE StrLess(Tail(a), Tail(b))

\* "New", "Available": the defaults of add_item
S_New == <<78, 101, 119>>
S_Available == <<65, 118, 97, 105, 108, 97, 98, 108, 101>>
S_Good == <<71, 111, 111, 100>>
S_InUse == <<73, 110, 32, 85, 115, 101>>
S_Empty == <<>>

----------------------------------------------------------------------------
(* The clock and get_formatted_time *)

Years == {2024}
Months == {1, 2}
Days == {1, 2}
Secs == {0}

Instants == [Y : Years, m : Months, d : Days, H : {0}, M : {0}, S : Secs]

\* chronological order of civil times
Before(t, u) ==
    \/ t.Y < u.Y
    \/ t.Y = u.Y /\ t.m < u.m
    \/ t.Y = u.Y /\ t.m = u.m /\ t.d < u.d
    \/ t.Y = u.Y /\ t.m = u.m /\ t.d = u.d /\ t.H < u.H
    \/ t.Y = u.Y /\ t.m = u.m /\ t.d = u.d /\ t.H = u.H /\ t.M < u.M
    \/ t.Y = u.Y /\ t.m = u.m /\ t.d = u.d /\ t.H = u.H /\ t.M = u.M /\ t.S < u.S

\* %d, %m, %H, %M, %S: two decimal digits; %Y: four
D2(n) == <<48 + ((n \div 10) % 10), 48 + (n % 10)>>
D4(n) == D2(n \div 100) \o D2(n % 100)

\* strftime("%d/%m/%Y %H:%M:%S") of est_time
get_formatted_time(t) ==
    D2(t.d) \o <<47>> \o D2(t.m) \o <<47>> \o D4(t.Y) \o <<32>>
        \o D2(t.H) \o <<58>> \o D2(t.M) \o <<58>> \o D2(t.S)

----------------------------------------------------------------------------
(* The collection *)

\* kwargs.get(f, dflt)
Get(kw, f, dflt) == IF f \in DOMAIN kw THEN kw[f] ELSE dflt

\* the empty keyword map
NoKw == [f \in {} |-> <<>>]

\* find({'asset_id': id}): the documents of the collection with that asset_id
Matching(coll, id) == {d \in coll : d.asset_id = id}

\* find_one({'asset_id': id}): no document (the empty set) or one of them
find_one(coll, id) ==
    IF Matching(coll, id) = {} THEN {}
    ELSE {CHOOSE d \in Matching(coll, id) : TRUE}

\* an index on asset_id created without unique=True
UniqueIndexViolated_NotUnique(coll, doc) == FALSE

\* the unique index on asset_id: a write that would give two documents the
\* same asset_id is refused with DuplicateKeyError
UniqueIndexViolated(coll, doc) ==
    \E d \in coll : d["_id"] # doc["_id"] /\ d.asset_id = doc.asset_id

\* insert_one(item): the collection afterwards, or the error
insert_one(coll, item, id) ==
    LET doc == item @@ ("_id" :> id) IN
    IF UniqueIndexViolated(coll, doc)
    THEN [coll |-> coll, exc |-> "DuplicateKeyError"]
    ELSE [coll |-> coll \cup {doc}, exc |-> ""]

\* update_one that replaces the document by the fields given
update_one_set_Replace(coll, id, fields) ==
    IF find_one(coll, id) = {}
    THEN [coll |-> coll, exc |-> "", modified |-> FALSE]
    ELSE LET old == CHOOSE d \in find_one(coll, id) : TRUE
             new == fields @@ [f \in {"_id", "asset_id"} |-> old[f]]
         IN  [coll |-> (coll \ {old}) \cup {new}, exc |-> "",
              modified |-> new # old]

\* update_one({'asset_id': id}, {'$set': fields}): the first matching document
\* gets the fields; modified tells whether a document changed
update_one_set(coll, id, fields) ==
    IF find_one(coll, id) = {}
    THEN [coll |-> coll, exc |-> "", modified |-> FALSE]
    ELSE LET old == CHOOSE d \in find_one(coll, id) : TRUE
             new == fields @@ old
         IN  IF UniqueIndexViolated(coll, new)
             THEN [coll |-> coll, exc |-> "DuplicateKeyError", modified |-> FALSE]
             ELSE [coll |-> (coll \ {old}) \cup {new}, exc |-> "",
                   modified |-> new # old]

\* update_one({'asset_id': id}, {'$unset': {f: ""}})
update_one_unset(coll, id, f) ==
    IF find_one(coll, id) = {}
    THEN [coll |-> coll, exc |-> "", modified |-> FALSE]
    ELSE LET old == CHOOSE d \in find_one(coll, id) : TRUE
             new == [g \in DOMAIN old \ {f} |-> old[g]]
         IN  [coll |-> (coll \ {old}) \cup {new}, exc |-> "",
              modified |-> new # old]

\* delete_one that removes nothing and reports one deletion
delete_one_Keeps(coll, id) ==
    [coll |-> coll, deleted |-> Cardinality(find_one(coll, id))]

\* delete_one({'asset_id': id}): the first matching document goes
delete_one(coll, id) ==
    [coll |-> coll \ find_one(coll, id),
     deleted |-> Cardinality(find_one(coll, id))]

----------------------------------------------------------------------------
(* Exceptions, as the caller sees them *)

E_IdRequired == "ValueError: Asset ID is required"
E_Exists == "ValueError: Asset ID already exists"
E_NameRequired == "ValueError: Item name is required"
E_NotFound == "ValueError: Asset ID not found"
E_NotNumeric == "ValueError: could not convert"
E_DuplicateKey == "DuplicateKeyError"

----------------------------------------------------------------------------
(* validate_asset_id and add_item *)

\* a keyword value for purchase_price or quantity, as add_item receives it:
\* a number (in hundredths) or a text that is no number
Num(v) == [k |-> "num", v |-> v]
Text == [k |-> "str", v |-> 0]

\* float(x), int(x): "" when it converts, the ValueError otherwise
ConvertError(x) == IF x.k = "num" THEN "" ELSE E_NotNumeric

\* float(x) in hundredths
float(x) == x.v

\* int(x) truncates toward zero
int(x) == IF x.v >= 0 THEN x.v \div 100 ELSE -((-x.v) \div 100)

\* validate_asset_id: "" when it returns True, the error it raises otherwise
validate_asset_id(coll, asset_id) ==
    IF strip(asset_id) = <<>> THEN E_IdRequired
    ELSE IF find_one(coll, asset_id) # {} THEN E_Exists
    ELSE ""

\* BuildItem with the status default of another field
BuildItem_WrongDefault(asset_id, item_name, kw, t) ==
    [asset_id |-> asset_id,
     item_name |-> item_name,
     description |-> Get(kw, "description", S_Empty),
     location |-> Get(kw, "location", S_Empty),
     department |-> Get(kw, "department", S_Empty),
     purchase_price |-> float(Get(kw, "purchase_price", Num(0))),
     condition |-> Get(kw, "condition", S_New),
     model_number |-> Get(kw, "model_number", S_Empty),
     serial_number |-> Get(kw, "serial_number", S_Empty),
     status |-> Get(kw, "status", S_New),
     quantity |-> int(Get(kw, "quantity", Num(100))),
     notes |-> Get(kw, "notes", S_Empty),
     last_updated |-> get_formatted_time(t)]

\* the item document add_item prepares
BuildItem(asset_id, item_name, kw, t) ==
    [asset_id |-> asset_id,
     item_name |-> item_name,
     description |-> Get(kw, "description", S_Empty),
     location |-> Get(kw, "location", S_Empty),
     department |-> Get(kw, "department", S_Empty),
     purchase_price |-> float(Get(kw, "purchase_price", Num(0))),
     condition |-> Get(kw, "condition", S_New),
     model_number |-> Get(kw, "model_number", S_Empty),
     serial_number |-> Get(kw, "serial_number", S_Empty),
     status |-> Get(kw, "status", S_Available),
     quantity |-> int(Get(kw, "quantity", Num(100))),
     notes |-> Get(kw, "notes", S_Empty),
     last_updated |-> get_formatted_time(t)]

\* add_item without its except DuplicateKeyError clause
TranslateInsertError_Raw(exc) == exc

\* except DuplicateKeyError: raise ValueError(... already exists)
TranslateInsertError(exc) == IF exc = E_DuplicateKey THEN E_Exists ELSE exc

\* add_item without its conversions and its check of the name
add_item_insert_Unchecked(coll, asset_id, item_name, kw, t, id) ==
    LET r == insert_one(coll, BuildItem(asset_id, item_name, NoKw, t), id)
    IN  [coll |-> r.coll, exc |-> TranslateInsertError(r.exc), ret |-> r.exc = ""]

\* add_item after validate_asset_id has returned: prepare, check, insert
add_item_insert(coll, asset_id, item_name, kw, t, id) ==
    IF ConvertError(Get(kw, "purchase_price", Num(0))) # ""
    THEN [coll |-> coll, exc |-> E_NotNumeric, ret |-> FALSE]
    ELSE IF ConvertError(Get(kw, "quantity", Num(100))) # ""
    THEN [coll |-> coll, exc |-> E_NotNumeric, ret |-> FALSE]
    ELSE IF strip(item_name) = <<>>
    THEN [coll |-> coll, exc |-> E_NameRequired, ret |-> FALSE]
    ELSE LET r == insert_one(coll, BuildItem(asset_id, item_name, kw, t), id)
         IN  [coll |-> r.coll, exc |-> TranslateInsertError(r.exc),
              ret |-> r.exc = ""]

\* add_item written as an upsert: no check, the document of that id replaced
add_item_Upsert(coll, asset_id, item_name, kw, t, id) ==
    [coll |-> (coll \ Matching(coll, asset_id))
                  \cup {BuildItem(asset_id, item_name, NoKw, t) @@ ("_id" :> id)},
     exc |-> "", ret |-> TRUE]

\* add_item, the whole call with nothing in between
add_item(coll, asset_id, item_name, kw, t, id) ==
    IF validate_asset_id(coll, asset_id) # ""
    THEN [coll |-> coll, exc |-> validate_asset_id(coll, asset_id), ret |-> FALSE]
    ELSE add_item_insert(coll, asset_id, item_name, kw, t, id)

\* get_item: no document, or the document with its "_id" as a string
get_item(coll, asset_id) ==
    {[d EXCEPT !["_id"] = <<48 + d["_id"]>>] : d \in find_one(coll, asset_id)}

----------------------------------------------------------------------------
(* update_item, delete_item *)

\* update_item whose stamp gives way to a last_updated of the caller
update_item_KeepsStamp(coll, asset_id, kw, t) ==
    IF get_item(coll, asset_id) = {}
    THEN [coll |-> coll, exc |-> E_NotFound, ret |-> FALSE]
    ELSE LET r == update_one_set(coll, asset_id,
                      kw @@ ("last_updated" :> get_formatted_time(t)))
         IN  [coll |-> r.coll, exc |-> r.exc, ret |-> r.modified]

\* update_item written as an upsert
update_item_Upsert(coll, asset_id, kw, t) ==
    IF get_item(coll, asset_id) = {}
    THEN [coll |-> coll \cup {[asset_id |-> asset_id,
                               last_updated |-> get_formatted_time(t)]
                              @@ ("_id" :> 0)},
          exc |-> "", ret |-> TRUE]
    ELSE LET r == update_one_set(coll, asset_id,
                      ("last_updated" :> get_formatted_time(t)) @@ kw)
         IN  [coll |-> r.coll, exc |-> r.exc, ret |-> r.modified]

\* update_item: the check by get_item, the stamp, update_one with $set
update_item(coll, asset_id, kw, t) ==
    IF get_item(coll, asset_id) = {}
    THEN [coll |-> coll, exc |-> E_NotFound, ret |-> FALSE]
    ELSE LET r == update_one_set(coll, asset_id,
                      ("last_updated" :> get_formatted_time(t)) @@ kw)
         IN  [coll |-> r.coll, exc |-> r.exc, ret |-> r.modified]

\* delete_item that does not look at deleted_count
delete_item_Silent(coll, asset_id) ==
    [coll |-> delete_one(coll, asset_id).coll, exc |-> "", ret |-> TRUE]

\* delete_item: delete_one, and the error when nothing was deleted
delete_item(coll, asset_id) ==
    LET r == delete_one(coll, asset_id) IN
    IF r.deleted = 0
    THEN [coll |-> coll, exc |-> E_NotFound, ret |-> FALSE]
    ELSE [coll |-> r.coll, exc |-> "", ret |-> TRUE]

----------------------------------------------------------------------------
(* update_asset_id: called by EditItemForm.save_changes, defined in no file *)
(* of src/; modelled from section 4.3 of the specification                  *)

\* the checks without the one of new_id
update_asset_id_check_NoConflict(coll, old_id, new_id) ==
    IF old_id = new_id THEN "same"
    ELSE IF find_one(coll, old_id) = {} THEN E_NotFound
    ELSE ""

\* the checks before the writes: "same" for the no-op, "" to go on
update_asset_id_check(coll, old_id, new_id) ==
    IF old_id = new_id THEN "same"
    ELSE IF find_one(coll, new_id) # {} THEN E_Exists
    ELSE IF find_one(coll, old_id) = {} THEN E_NotFound
    ELSE ""

\* the fetched record with its asset_id rewritten, as it is inserted
Renamed(rec, new_id) ==
    [f \in DOMAIN rec \ {"_id"} |-> IF f = "asset_id" THEN new_id ELSE rec[f]]

\* the rename written delete-then-insert
RenameWrites_DeleteFirst == <<"delete", "insert">>

\* the two writes of update_asset_id, in their order
RenameWrites == <<"insert", "delete">>

\* one write of the rename
RenameWrite(coll, w, rec, old_id, new_id, id) ==
    IF w = "insert" THEN insert_one(coll, Renamed(rec, new_id), id)
    ELSE [coll |-> delete_one(coll, old_id).coll, exc |-> ""]

\* update_asset_id, the whole call with nothing in between
update_asset_id(coll, old_id, new_id, id) ==
    LET chk == update_asset_id_check(coll, old_id, new_id) IN
    IF chk = "same" THEN [coll |-> coll, exc |-> "", ret |-> TRUE]
    ELSE IF chk # "" THEN [coll |-> coll, exc |-> chk, ret |-> FALSE]
    ELSE LET rec == CHOOSE d \in find_one(coll, old_id) : TRUE
             w1 == RenameWrite(coll, RenameWrites[1], rec, old_id, new_id, id)
             w2 == RenameWrite(w1.coll, RenameWrites[2], rec, old_id, new_id, id)
         IN  IF w1.exc # "" THEN [coll |-> w1.coll, exc |-> w1.exc, ret |-> FALSE]
             ELSE [coll |-> w2.coll, exc |-> w2.exc, ret |-> w2.exc = ""]

----------------------------------------------------------------------------
(* Images *)

\* the file at image_path: readable with these bytes, or not there
File(bytes) == [ok |-> TRUE, data |-> bytes]
NoFile == [ok |-> FALSE, data |-> <<>>]

E_NoFile == "FileNotFoundError"

\* add_image that leaves an image the record already has
add_image_KeepsOld(coll, asset_id, file) ==
    IF \E d \in find_one(coll, asset_id) : "image" \in DOMAIN d
    THEN [coll |-> coll, exc |-> "", ret |-> FALSE]
    ELSE LET r == update_one_set(coll, asset_id, [image |-> file.data])
         IN  [coll |-> r.coll, exc |-> r.exc, ret |-> r.modified]

\* add_image: the bytes of the file, then update_one with $set
add_image(coll, asset_id, file) ==
    IF ~file.ok THEN [coll |-> coll, exc |-> E_NoFile, ret |-> FALSE]
    ELSE LET r == update_one_set(coll, asset_id, [image |-> file.data])
         IN  [coll |-> r.coll, exc |-> r.exc, ret |-> r.modified]

\* get_image: no bytes (None), or the image of the record
get_image(coll, asset_id) ==
    {d.image : d \in {e \in find_one(coll, asset_id) : "image" \in DOMAIN e}}

\* remove_image that removes the record
remove_image_Delete(coll, asset_id) ==
    [coll |-> delete_one(coll, asset_id).coll, exc |-> "",
     ret |-> delete_one(coll, asset_id).deleted > 0]

\* remove_image: update_one with $unset
remove_image(coll, asset_id) ==
    LET r == update_one_unset(coll, asset_id, "image")
    IN  [coll |-> r.coll, exc |-> r.exc, ret |-> r.modified]

----------------------------------------------------------------------------
(* get_statistics *)

\* the truth value of a string: the empty string is false, every other true
Truthy(s) == s # <<>>

\* sum(item.get('purchase_price', 0) for item in find({}, {'purchase_price': 1}))
RECURSIVE SumPrices(_)
SumPrices(docs) ==
    IF docs = {} THEN 0
    ELSE LET d == CHOOSE x \in docs : TRUE
         IN  Get(d, "purchase_price", 0) + SumPrices(docs \ {d})

\* distinct(field): the values of the field in the collection
distinct(coll, field) == {d[field] : d \in {e \in coll : field \in DOMAIN e}}

\* the loop over distinct(field): a count for every value that is true
CountsBy(coll, field) ==
    [v \in {x \in distinct(coll, field) : Truthy(x)} |->
        Cardinality({d \in coll : field \in DOMAIN d /\ d[field] = v})]

get_statistics(coll) ==
    [total_items |-> Cardinality(coll),
     total_value |-> SumPrices(coll),
     items_by_department |-> CountsBy(coll, "department"),
     items_by_condition |-> CountsBy(coll, "condition")]

----------------------------------------------------------------------------
(* export_to_csv *)

fieldnames ==
    <<"asset_id", "item_name", "description", "location", "department",
      "purchase_price", "quantity", "condition", "model_number",
      "serial_number", "status", "notes", "last_updated">>

E_NoItems == "ValueError: No items to export"

\* the cursor find() returns: nothing is fetched before it is iterated
NewCursor(docs) == [pending |-> docs, data |-> <<>>, killed |-> FALSE]

\* Cursor.alive: buffered documents, or a cursor the server has not closed
alive(cursor) == Len(cursor.data) > 0 \/ ~cursor.killed

\* a row that is the item as the cursor gave it
Row_Raw(item) == item

\* the row written for an item: every column, '' for a field it lacks
Row(item) ==
    [f \in {fieldnames[i] : i \in 1..Len(fieldnames)} |-> Get(item, f, S_Empty)]

\* the orders a cursor without a sort may return the documents in
RECURSIVE Orders(_)
Orders(docs) ==
    IF docs = {} THEN {<<>>}
    ELSE UNION {{<<d>> \o o : o \in Orders(docs \ {d})} : d \in docs}

NoCsv == [written |-> FALSE, header |-> <<>>, rows |-> <<>>]

\* export_to_csv with the cursor returning the documents in this order
export_to_csv(coll, order) ==
    IF ~alive(NewCursor(coll))
    THEN [exc |-> E_NoItems, ret |-> FALSE, csv |-> NoCsv]
    ELSE [exc |-> "", ret |-> TRUE,
          csv |-> [written |-> TRUE, header |-> fieldnames,
                   rows |-> [i \in 1..Len(order) |-> Row(order[i])]]]

----------------------------------------------------------------------------
(* search_items *)

\* re.match of the pattern at position i of s under the option 'i': a "." of
\* the pattern stands for any character, every other character of the model's
\* alphabet for itself
MatchAt(pattern, s, i) ==
    /\ i + Len(pattern) - 1 <= Len(s)
    /\ \A k \in 1..Len(pattern) :
           pattern[k] = 46 \/ lower(pattern[k]) = lower(s[i + k - 1])

\* {'$regex': ".*{pattern}.*", '$options': 'i'}
RegexContains(pattern, s) == \E i \in 1..Len(s) + 1 : MatchAt(pattern, s, i)

\* {'$regex': "^{pattern}.*", '$options': 'i'}
RegexStarts(pattern, s) == MatchAt(pattern, s, 1)

ContainsFields ==
    {"asset_id", "item_name", "description", "location", "department",
     "model_number", "serial_number"}

StartsFields == {"status", "condition"}

\* the documents the query of search_items selects
Query(coll, search_term) ==
    IF strip(search_term) # <<>>
    THEN {d \in coll :
            \/ \E f \in ContainsFields \cap DOMAIN d :
                   RegexContains(strip(search_term), d[f])
            \/ \E f \in StartsFields \cap DOMAIN d :
                   RegexStarts(strip(search_term), d[f])}
    ELSE coll

\* sort([('last_updated', DESCENDING)]): the orders of the documents in which
\* no document comes before one with a greater last_updated string; documents
\* with equal strings come in an order the store does not fix
SortedDescending(docs) ==
    {o \in Orders(docs) :
        \A i \in 1..Len(o), j \in 1..Len(o) :
            i < j => ~StrLess(o[i].last_updated, o[j].last_updated)}

\* the projection of the find of search_items, and str(item['_id'])
ProjectionFields ==
    {"_id", "asset_id", "item_name", "description", "location", "department",
     "status", "condition", "model_number", "serial_number", "quantity",
     "purchase_price", "last_updated"}

\* a find without projection
Projected_Whole(d) == [d EXCEPT !["_id"] = <<48 + @>>]

Projected(d) ==
    [f \in DOMAIN d \cap ProjectionFields |->
        IF f = "_id" THEN <<48 + d[f]>> ELSE d[f]]

Min(a, b) == IF a < b THEN a ELSE b

\* skip and limit that give the last document for a skip past the end
Page_Clamped(order, skip, per_page) ==
    IF order = <<>> THEN <<>>
    ELSE IF skip >= Len(order) THEN <<order[Len(order)]>>
    ELSE SubSeq(order, skip + 1, Min(Len(order), skip + per_page))

\* skip(skip).limit(per_page) of the sorted cursor
Page(order, skip, per_page) ==
    IF skip >= Len(order) THEN <<>>
    ELSE SubSeq(order, skip + 1, Min(Len(order), skip + per_page))

\* search_items, with the sorted cursor returning the documents in this order
search_items(coll, search_term, page, per_page, order) ==
    LET total_items == Cardinality(Query(coll, search_term))
        docs == Page(order, (page - 1) * per_page, per_page)
    IN  [items |-> [i \in 1..Len(docs) |-> Projected(docs[i])],
         total_items |-> total_items,
         page |-> page,
         total_pages |-> (total_items + per_page - 1) \div per_page,
         per_page |-> per_page]

----------------------------------------------------------------------------
(* retry_operation, and the failures of the backend *)

\* retry_operation(max_attempts = 3, delay = 1.0): attempts, seconds
max_attempts == 3
delay == 1

\* a round trip that fails for a while: AutoReconnect, a ConnectionFailure
E_AutoReconnect == "AutoReconnect"

\* what MongoClient raises when no server is reached, and when the server
\* refuses the credentials
E_ServerSelectionTimeout == "ServerSelectionTimeoutError"
E_OperationFailure == "OperationFailure"

\* except (ConnectionFailure, PyMongoError)
Retryable(exc) ==
    exc \in {E_AutoReconnect, E_DuplicateKey, E_ServerSelectionTimeout,
             E_OperationFailure}

\* the round trips of a call: all succeed ("none"), the first fails and
\* nothing is written ("lost"), or the write is applied and its
\* acknowledgement fails ("applied")
Faults == {"none", "lost", "applied"}

\* the result r of a call on coll, under a fault of its round trips
WithFault(coll, r, fault) ==
    IF fault = "lost"
    THEN [coll |-> coll, exc |-> E_AutoReconnect, ret |-> FALSE]
    ELSE IF fault = "applied" /\ r.coll # coll
    THEN [coll |-> r.coll, exc |-> E_AutoReconnect, ret |-> FALSE]
    ELSE r

\* one run of add_item's body: a blank id is refused before any round trip
add_item_attempt(coll, asset_id, item_name, kw, t, id, fault) ==
    IF strip(asset_id) = <<>>
    THEN add_item(coll, asset_id, item_name, kw, t, id)
    ELSE WithFault(coll, add_item(coll, asset_id, item_name, kw, t, id), fault)

\* the wrapper's variables before the first attempt
NoRetry == [attempt |-> 0, last_error |-> "", calls |-> 0, slept |-> <<>>]

\* a wrapper that sleeps after every failed attempt
Sleeps_Always(attempt) == <<delay * (attempt + 1)>>

\* if attempt < max_attempts - 1: time.sleep(delay * (attempt + 1))
Sleeps(attempt) ==
    IF attempt < max_attempts - 1 THEN <<delay * (attempt + 1)>> ELSE <<>>

\* __init__: the client, the indexes and the probe server_info(); the except
\* clause logs and raises the exception again
Construct(probe) ==
    [exc |-> IF probe = "ok" THEN ""
             ELSE IF probe = "auth" THEN E_OperationFailure
             ELSE E_ServerSelectionTimeout,
     ret |-> probe = "ok"]

Probes == {"ok", "auth", "unreachable"}

----------------------------------------------------------------------------
(* Clients and outcomes *)

Clients == {"c1", "c2"}

NoOut == [op |-> "none", id |-> <<>>, exc |-> "", ret |-> FALSE]
NoReq ==
    [op |-> "none", id |-> <<>>, name |-> <<>>, kw |-> NoKw, new |-> <<>>,
     rec |-> {}]

NoScan ==
    [on |-> FALSE, term |-> <<>>, per_page |-> 0, page |-> 0, total_pages |-> 0,
     total_items |-> 0, items |-> <<>>]

\* no read yet
NoGot == [op |-> "none", id |-> <<>>, val |-> {}]

\* SearchInterface.__init__: current_page, total_pages; an empty text field
NewScreen ==
    [current_page |-> 1, total_pages |-> 1, text |-> <<>>, items |-> <<>>,
     scheduled |-> FALSE]

Outcome(c, op, id, r) ==
    [out EXCEPT ![c] = [op |-> op, id |-> id, exc |-> r.exc, ret |-> r.ret]]

----------------------------------------------------------------------------
(* The operations of one session: each call runs to its end *)

AddItem(c, asset_id, item_name, kw) ==
    LET r == add_item(store, asset_id, item_name, kw, now, nextId) IN
    /\ pc[c] = "idle"
    /\ r.exc = "" => nextId <= MaxInserts
    /\ store' = r.coll
    /\ nextId' = IF r.exc = "" THEN nextId + 1 ELSE nextId
    /\ out' = Outcome(c, "add_item", asset_id, r)

UpdateItem(c, asset_id, kw) ==
    LET r == update_item(store, asset_id, kw, now) IN
    /\ pc[c] = "idle"
    /\ store' = r.coll
    /\ out' = Outcome(c, "update_item", asset_id, r)
    /\ UNCHANGED nextId

DeleteItem(c, asset_id) ==
    LET r == delete_item(store, asset_id) IN
    /\ pc[c] = "idle"
    /\ store' = r.coll
    /\ out' = Outcome(c, "delete_item", asset_id, r)
    /\ UNCHANGED nextId

UpdateAssetId(c, old_id, new_id) ==
    LET r == update_asset_id(store, old_id, new_id, nextId) IN
    /\ pc[c] = "idle"
    /\ r.coll # store => nextId <= MaxInserts
    /\ store' = r.coll
    /\ nextId' = IF r.coll # store THEN nextId + 1 ELSE nextId
    /\ out' = Outcome(c, "update_asset_id", old_id, r)

AddImage(c, asset_id, file) ==
    LET r == add_image(store, asset_id, file) IN
    /\ pc[c] = "idle"
    /\ store' = r.coll
    /\ out' = Outcome(c, "add_image", asset_id, r)
    /\ UNCHANGED nextId

RemoveImage(c, asset_id) ==
    LET r == remove_image(store, asset_id) IN
    /\ pc[c] = "idle"
    /\ store' = r.coll
    /\ out' = Outcome(c, "remove_image", asset_id, r)
    /\ UNCHANGED nextId

ExportToCsv(c) ==
    \E order \in Orders(store) :
        LET r == export_to_csv(store, order) IN
        /\ pc[c] = "idle"
        /\ csv' = r.csv
        /\ out' = Outcome(c, "export_to_csv", <<>>, r)
        /\ UNCHANGED <<store, nextId>>

\* time passes
Tick(instants) ==
    /\ \E t \in instants : Before(now, t) /\ now' = t
    /\ UNCHANGED <<store, nextId, out>>

----------------------------------------------------------------------------
(* Inputs of the single-session specification *)

Id_A1 == <<65, 49>>
Id_B2 == <<66, 50>>
Id_Blank == <<32>>
Name_Lap == <<76, 97, 112>>

KnownIds == {Id_A1, Id_B2}
CrudIds == KnownIds \cup {Id_Blank}
CrudNames == {Name_Lap, S_Empty}

\* the keyword maps add_item is called with
Kw_Full ==
    [purchase_price |-> Num(99999), quantity |-> Num(200),
     description |-> <<100>>, department |-> <<73, 84>>, condition |-> S_Good,
     status |-> S_InUse, notes |-> <<110>>, last_updated |-> <<120>>]
Kw_BadPrice == [purchase_price |-> Text]
AddKws == {NoKw, Kw_Full, Kw_BadPrice}

\* the keyword maps update_item is called with
Up_Status == [status |-> S_InUse, last_updated |-> <<120>>]
Up_Rename == [asset_id |-> Id_B2]
UpdateKws == {Up_Status, Up_Rename}

\* the instants the session's clock passes through
CrudInstants == {t \in Instants : t.m = 1}

\* the files add_image is pointed at
Files == {File(<<1>>), NoFile}

Session == {"c1"}

Init ==
    /\ store = {}
    /\ now = [Y |-> 2024, m |-> 1, d |-> 1, H |-> 0, M |-> 0, S |-> 0]
    /\ nextId = 1
    /\ out = [c \in Clients |-> NoOut]
    /\ pc = [c \in Clients |-> "idle"]
    /\ req = [c \in Clients |-> NoReq]
    /\ racing = {}
    /\ scan = NoScan
    /\ csv = NoCsv
    /\ retry = NoRetry
    /\ got = NoGot
    /\ screen = NewScreen

Idle == UNCHANGED <<pc, req, racing, scan, retry, got, screen>> /\ csv' = NoCsv

Next ==
    \/ \E c \in Session, id \in CrudIds, n \in CrudNames, kw \in AddKws :
           AddItem(c, id, n, kw) /\ UNCHANGED now /\ Idle
    \/ \E c \in Session, id \in KnownIds, kw \in UpdateKws :
           UpdateItem(c, id, kw) /\ UNCHANGED now /\ Idle
    \/ \E c \in Session, id \in KnownIds :
           DeleteItem(c, id) /\ UNCHANGED now /\ Idle
    \/ \E c \in Session, old \in KnownIds, new \in KnownIds :
           UpdateAssetId(c, old, new) /\ UNCHANGED now /\ Idle
    \/ \E c \in Session, id \in KnownIds, f \in Files :
           AddImage(c, id, f) /\ UNCHANGED now /\ Idle
    \/ \E c \in Session, id \in KnownIds :
           RemoveImage(c, id) /\ UNCHANGED now /\ Idle
    \/ \E c \in Session :
           ExportToCsv(c)
           /\ UNCHANGED <<now, pc, req, racing, scan, retry, got, screen>>
    \/ Tick(CrudInstants) /\ Idle

Spec == Init /\ [][Next]_vars

----------------------------------------------------------------------------
(* A caller that reads a search result page by page, from page 1 to the   *)
(* last, while the store does not change                                    *)

SearchFirstPage(term, per_page) ==
    \E order \in SortedDescending(Query(store, term)) :
        LET r == search_items(store, term, 1, per_page, order) IN
        scan' = [on |-> TRUE, term |-> term, per_page |-> per_page, page |-> 1,
                 total_pages |-> r.total_pages, total_items |-> r.total_items,
                 items |-> r.items]

SearchNextPage ==
    /\ scan.on
    /\ scan.page < scan.total_pages
    /\ \E order \in SortedDescending(Query(store, scan.term)) :
           LET r == search_items(store, scan.term, scan.page + 1, scan.per_page,
                                 order) IN
           scan' = [scan EXCEPT !.page = r.page,
                                !.total_pages = r.total_pages,
                                !.total_items = r.total_items,
                                !.items = @ \o r.items]

\* every page up to the last has been read
ScanDone == scan.on /\ scan.page >= scan.total_pages

\* search terms: "", " a", "n", "u", "."
SearchTerms == {<<>>, <<32, 97>>, <<110>>, <<117>>, <<46>>}
PerPages == {1, 2}

Kw_InUse == [status |-> S_InUse]
SearchKws == {NoKw, Kw_InUse}

\* the clock passes from the 1st of January to the 2nd, then to the 1st of
\* February
SearchInstants == {t \in Instants : t.d # t.m}

SearchFrame == UNCHANGED <<pc, req, racing, csv, retry, got, screen>>

SearchNext ==
    \/ \E id \in KnownIds, kw \in SearchKws :
           /\ AddItem("c1", id, Name_Lap, kw)
           /\ scan' = NoScan /\ UNCHANGED now /\ SearchFrame
    \/ \E id \in KnownIds :
           /\ UpdateItem("c1", id, NoKw)
           /\ scan' = NoScan /\ UNCHANGED now /\ SearchFrame
    \/ Tick(SearchInstants) /\ UNCHANGED scan /\ SearchFrame
    \/ \E term \in SearchTerms, per_page \in PerPages :
           /\ SearchFirstPage(term, per_page)
           /\ UNCHANGED <<store, now, nextId, out>> /\ SearchFrame
    \/ SearchNextPage /\ UNCHANGED <<store, now, nextId, out>> /\ SearchFrame

SpecSearch == Init /\ [][SearchNext]_vars

----------------------------------------------------------------------------
(* A caller that asks search_items for any page number *)

E_SkipNegative == "ValueError: The 'skip' parameter must be >= 0"

\* Cursor.skip(skip) refuses a negative number
SkipError(page, per_page) ==
    IF (page - 1) * per_page < 0 THEN E_SkipNegative ELSE ""

\* one call of search_items(term, page, per_page)
SearchPage(c, term, page, per_page) ==
    \E order \in SortedDescending(Query(store, term)) :
        LET exc == SkipError(page, per_page)
            r == search_items(store, term, page, per_page, order)
        IN  /\ pc[c] = "idle"
            /\ out' = Outcome(c, "search_items", term,
                              [exc |-> exc, ret |-> exc = ""])
            /\ scan' = IF exc # "" THEN NoScan
                       ELSE [on |-> TRUE, term |-> term, per_page |-> per_page,
                             page |-> r.page, total_pages |-> r.total_pages,
                             total_items |-> r.total_items, items |-> r.items]

\* search terms: "", "i"
PageTerms == {<<>>, <<105>>}
Pages == 0..4

PageNext ==
    \/ \E c \in Session, id \in KnownIds, kw \in SearchKws :
           /\ AddItem(c, id, Name_Lap, kw)
           /\ scan' = NoScan /\ UNCHANGED now /\ SearchFrame
    \/ \E c \in Session, id \in KnownIds :
           /\ DeleteItem(c, id)
           /\ scan' = NoScan /\ UNCHANGED now /\ SearchFrame
    \/ \E c \in Session, id \in KnownIds :
           /\ AddImage(c, id, File(<<1>>))
           /\ scan' = NoScan /\ UNCHANGED now /\ SearchFrame
    \/ \E c \in Session, term \in PageTerms, page \in Pages, per_page \in PerPages :
           /\ SearchPage(c, term, page, per_page)
           /\ UNCHANGED <<store, now, nextId>> /\ SearchFrame

SpecPage == Init /\ [][PageNext]_vars

----------------------------------------------------------------------------
(* The search screen: SearchInterface and the events of the user *)

\* perform_search: search_items for the text and the current page; the
\* screen takes total_pages and the items; an exception is shown as a
\* message and the page variables stay
perform_search(scr, coll, order) ==
    IF SkipError(scr.current_page, items_per_page) # ""
    THEN [scr EXCEPT !.items = <<>>]
    ELSE LET results == search_items(coll, strip(scr.text), scr.current_page,
                                     items_per_page, order)
         IN  [scr EXCEPT !.total_pages = results.total_pages,
                         !.items = results.items]

\* the screen after perform_search on this collection
Searched(scr, coll, next) ==
    \E order \in SortedDescending(Query(coll, strip(scr.text))) :
        next = perform_search(scr, coll, order)

\* the search button, Enter in the text field, or the field gaining focus
PressSearch ==
    /\ Searched(screen, store, screen')
    /\ UNCHANGED <<store, nextId, out>>

\* on_search_text_change: the text is new, a search is scheduled
ChangeText(value) ==
    /\ value # screen.text
    /\ screen' = [screen EXCEPT !.text = value, !.scheduled = TRUE]
    /\ UNCHANGED <<store, nextId, out>>

\* _delayed_search: the scheduled search runs
DelayedSearch ==
    /\ screen.scheduled
    /\ Searched([screen EXCEPT !.scheduled = FALSE], store, screen')
    /\ UNCHANGED <<store, nextId, out>>

previous_page ==
    /\ screen.current_page > 1
    /\ Searched([screen EXCEPT !.current_page = @ - 1], store, screen')
    /\ UNCHANGED <<store, nextId, out>>

next_page ==
    /\ screen.current_page < screen.total_pages
    /\ Searched([screen EXCEPT !.current_page = @ + 1], store, screen')
    /\ UNCHANGED <<store, nextId, out>>

\* confirm_delete on the i-th card: delete_item, then refresh_search; an
\* error is shown in a popup and the screen stays
DeleteCard(c, i) ==
    LET r == delete_item(store, screen.items[i].asset_id) IN
    /\ i \in 1..Len(screen.items)
    /\ store' = r.coll
    /\ out' = Outcome(c, "delete_item", screen.items[i].asset_id, r)
    /\ IF r.exc = "" THEN Searched(screen, r.coll, screen')
       ELSE UNCHANGED screen
    /\ UNCHANGED nextId

\* the edit form of the i-th card saved with the same asset_id: update_item,
\* then on_save_callback, which is refresh_search
EditCard(c, i, kw) ==
    LET r == update_item(store, screen.items[i].asset_id, kw, now) IN
    /\ i \in 1..Len(screen.items)
    /\ store' = r.coll
    /\ out' = Outcome(c, "update_item", screen.items[i].asset_id, r)
    /\ IF r.exc = "" THEN Searched(screen, r.coll, screen')
       ELSE UNCHANGED screen
    /\ UNCHANGED nextId

\* the texts typed into the search field: "", "1"
ScreenTexts == {<<>>, <<49>>}

ScreenFrame == UNCHANGED <<now, pc, req, racing, scan, csv, retry, got>>

ScreenNext ==
    \/ \E c \in Session, id \in KnownIds :
           AddItem(c, id, Name_Lap, NoKw) /\ UNCHANGED screen /\ ScreenFrame
    \/ PressSearch /\ ScreenFrame
    \/ \E value \in ScreenTexts : ChangeText(value) /\ ScreenFrame
    \/ DelayedSearch /\ ScreenFrame
    \/ previous_page /\ ScreenFrame
    \/ next_page /\ ScreenFrame
    \/ \E c \in Session, i \in 1..items_per_page : DeleteCard(c, i) /\ ScreenFrame
    \/ \E c \in Session, i \in 1..items_per_page :
           EditCard(c, i, Kw_InUse) /\ ScreenFrame

SpecScreen == Init /\ [][ScreenNext]_vars

----------------------------------------------------------------------------
(* One session that attaches, reads and removes images and asks for the *)
(* statistics                                                            *)

GetImage(c, asset_id) ==
    /\ pc[c] = "idle"
    /\ got' = [op |-> "get_image", id |-> asset_id,
               val |-> get_image(store, asset_id)]
    /\ out' = Outcome(c, "get_image", asset_id, [exc |-> "", ret |-> TRUE])
    /\ UNCHANGED <<store, nextId>>

GetStatistics(c) ==
    /\ pc[c] = "idle"
    /\ got' = [op |-> "get_statistics", id |-> <<>>, val |-> get_statistics(store)]
    /\ out' = Outcome(c, "get_statistics", <<>>, [exc |-> "", ret |-> TRUE])
    /\ UNCHANGED <<store, nextId>>

\* keyword maps with a department: "IT", and " "
Kw_Dept == [department |-> <<73, 84>>, purchase_price |-> Num(99999)]
Kw_BlankDept == [department |-> <<32>>, purchase_price |-> Num(150)]
ReadKws == {NoKw, Kw_Dept, Kw_BlankDept}

\* the files add_image is pointed at: two with content, one empty
ReadFiles == {File(<<1>>), File(<<2>>), File(<<>>)}

ReadFrame == UNCHANGED <<now, pc, req, racing, scan, csv, retry, screen>>

ReadNext ==
    \/ \E c \in Session, id \in KnownIds, kw \in ReadKws :
           AddItem(c, id, Name_Lap, kw) /\ UNCHANGED got /\ ReadFrame
    \/ \E c \in Session, id \in KnownIds :
           DeleteItem(c, id) /\ UNCHANGED got /\ ReadFrame
    \/ \E c \in Session, id \in KnownIds, f \in ReadFiles :
           AddImage(c, id, f) /\ UNCHANGED got /\ ReadFrame
    \/ \E c \in Session, id \in KnownIds :
           RemoveImage(c, id) /\ UNCHANGED got /\ ReadFrame
    \/ \E c \in Session, id \in KnownIds : GetImage(c, id) /\ ReadFrame
    \/ \E c \in Session : GetStatistics(c) /\ ReadFrame

SpecRead == Init /\ [][ReadNext]_vars

----------------------------------------------------------------------------
(* One session on a backend whose round trips may fail for a while *)

\* add_item is called: the wrapper starts (rec keeps, for the history, the
\* records of that id when the call began)
WrappedCall(c, asset_id, item_name, kw) ==
    /\ pc[c] = "idle"
    /\ pc' = [pc EXCEPT ![c] = "wrapper"]
    /\ req' = [req EXCEPT ![c] =
                  [NoReq EXCEPT !.op = "add_item", !.id = asset_id,
                                !.name = item_name, !.kw = kw,
                                !.rec = Matching(store, asset_id)]]
    /\ retry' = NoRetry
    /\ UNCHANGED <<store, nextId, out>>

\* one turn of the wrapper's loop: the body of add_item runs; a result or an
\* error that is not retryable ends the call; a retryable error is kept, the
\* wrapper sleeps and goes on, or raises it after the last attempt
WrappedAttempt(c, fault) ==
    LET r == add_item_attempt(store, req[c].id, req[c].name, req[c].kw, now,
                              nextId, fault)
        ran == [retry EXCEPT !.calls = @ + 1]
    IN  /\ pc[c] = "wrapper"
        /\ r.coll # store => nextId <= MaxInserts
        /\ store' = r.coll
        /\ nextId' = IF r.coll # store THEN nextId + 1 ELSE nextId
        /\ IF ~Retryable(r.exc)
           THEN /\ retry' = ran
                /\ out' = Outcome(c, "add_item", req[c].id, r)
                /\ pc' = [pc EXCEPT ![c] = "idle"]
                /\ req' = [req EXCEPT ![c] = NoReq]
           ELSE IF retry.attempt + 1 < max_attempts
           THEN /\ retry' = [ran EXCEPT !.last_error = r.exc,
                                        !.slept = @ \o Sleeps(retry.attempt),
                                        !.attempt = @ + 1]
                /\ UNCHANGED <<out, pc, req>>
           ELSE /\ retry' = [ran EXCEPT !.last_error = r.exc,
                                        !.slept = @ \o Sleeps(retry.attempt)]
                /\ out' = Outcome(c, "add_item", req[c].id,
                                  [exc |-> r.exc, ret |-> FALSE])
                /\ pc' = [pc EXCEPT ![c] = "idle"]
                /\ req' = [req EXCEPT ![c] = NoReq]

\* a call of a function that is not decorated: its body runs once
Once(c, op, asset_id, r) ==
    /\ pc[c] = "idle"
    /\ store' = r.coll
    /\ out' = Outcome(c, op, asset_id, r)
    /\ retry' = [NoRetry EXCEPT !.calls = 1]
    /\ UNCHANGED <<nextId, pc, req>>

UpdateItemOnce(c, asset_id, kw, fault) ==
    Once(c, "update_item", asset_id,
         WithFault(store, update_item(store, asset_id, kw, now), fault))

DeleteItemOnce(c, asset_id, fault) ==
    Once(c, "delete_item", asset_id,
         WithFault(store, delete_item(store, asset_id), fault))

AddImageOnce(c, asset_id, file, fault) ==
    Once(c, "add_image", asset_id,
         WithFault(store, add_image(store, asset_id, file), fault))

RemoveImageOnce(c, asset_id, fault) ==
    Once(c, "remove_image", asset_id,
         WithFault(store, remove_image(store, asset_id), fault))

\* InventoryDatabase(connection_string)
Connect(c, probe) ==
    /\ pc[c] = "idle"
    /\ out' = Outcome(c, "__init__", <<>>, Construct(probe))
    /\ retry' = NoRetry
    /\ UNCHANGED <<store, nextId, pc, req>>

Kw_Negative == [purchase_price |-> Num(-100), quantity |-> Num(-100)]
RetryKws == {NoKw, Kw_Negative}

RetryFrame == UNCHANGED <<now, racing, scan, csv, got, screen>>

RetryNext ==
    \/ \E c \in Session, id \in KnownIds, kw \in RetryKws :
           WrappedCall(c, id, Name_Lap, kw) /\ RetryFrame
    \/ \E c \in Session, fault \in Faults : WrappedAttempt(c, fault) /\ RetryFrame
    \/ \E c \in Session, id \in KnownIds, fault \in Faults :
           UpdateItemOnce(c, id, Up_Status, fault) /\ RetryFrame
    \/ \E c \in Session, id \in KnownIds, fault \in Faults :
           DeleteItemOnce(c, id, fault) /\ RetryFrame
    \/ \E c \in Session, id \in KnownIds, fault \in Faults :
           AddImageOnce(c, id, File(<<1>>), fault) /\ RetryFrame
    \/ \E c \in Session, id \in KnownIds, fault \in Faults :
           RemoveImageOnce(c, id, fault) /\ RetryFrame
    \/ \E c \in Session, probe \in Probes : Connect(c, probe) /\ RetryFrame

SpecRetry == Init /\ [][RetryNext]_vars

----------------------------------------------------------------------------
(* Two clients of the same collection: a call is a sequence of round trips *)
(* to the store, and the round trips of the two clients interleave         *)

E_Stopped == "stopped"

\* add_item up to the return of validate_asset_id (its find_one)
AddCall(c, asset_id, item_name, kw) ==
    LET v == validate_asset_id(store, asset_id) IN
    /\ pc[c] = "idle"
    /\ IF v # ""
       THEN /\ out' = Outcome(c, "add_item", asset_id, [exc |-> v, ret |-> FALSE])
            /\ racing' = {}
            /\ UNCHANGED <<pc, req>>
       ELSE /\ pc' = [pc EXCEPT ![c] = "add_insert"]
            /\ req' = [req EXCEPT ![c] =
                          [NoReq EXCEPT !.op = "add_item", !.id = asset_id,
                                        !.name = item_name, !.kw = kw]]
            /\ racing' = IF \E d \in Clients \ {c} :
                                pc[d] = "add_insert" /\ req[d].id = asset_id
                         THEN Clients ELSE {}
            /\ UNCHANGED out
    /\ UNCHANGED <<store, nextId>>

\* the rest of add_item: the document, the name check, insert_one
AddInsert(c) ==
    LET r == add_item_insert(store, req[c].id, req[c].name, req[c].kw, now, nextId)
    IN  /\ pc[c] = "add_insert"
        /\ r.exc = "" => nextId <= MaxInserts
        /\ store' = r.coll
        /\ nextId' = IF r.exc = "" THEN nextId + 1 ELSE nextId
        /\ out' = Outcome(c, "add_item", req[c].id, r)
        /\ pc' = [pc EXCEPT ![c] = "idle"]
        /\ req' = [req EXCEPT ![c] = NoReq]
        /\ UNCHANGED racing

\* update_asset_id up to the fetch of the record
RenameCall(c, old_id, new_id) ==
    LET chk == update_asset_id_check(store, old_id, new_id) IN
    /\ pc[c] = "idle"
    /\ IF chk # ""
       THEN /\ out' = Outcome(c, "update_asset_id", old_id,
                              [exc |-> IF chk = "same" THEN "" ELSE chk,
                               ret |-> chk = "same"])
            /\ UNCHANGED <<pc, req>>
       ELSE /\ pc' = [pc EXCEPT ![c] = "rename_1"]
            /\ req' = [req EXCEPT ![c] =
                          [NoReq EXCEPT !.op = "update_asset_id", !.id = old_id,
                                        !.new = new_id,
                                        !.rec = find_one(store, old_id)]]
            /\ UNCHANGED out
    /\ racing' = {}
    /\ UNCHANGED <<store, nextId>>

\* one write of update_asset_id: the first, then the second
RenameStep(c) ==
    LET n == IF pc[c] = "rename_1" THEN 1 ELSE 2
        rec == CHOOSE d \in req[c].rec : TRUE
        w == RenameWrite(store, RenameWrites[n], rec, req[c].id, req[c].new, nextId)
    IN  /\ pc[c] \in {"rename_1", "rename_2"}
        /\ RenameWrites[n] = "insert" /\ w.exc = "" => nextId <= MaxInserts
        /\ store' = w.coll
        /\ nextId' = IF RenameWrites[n] = "insert" /\ w.exc = ""
                     THEN nextId + 1 ELSE nextId
        /\ IF w.exc = "" /\ n = 1
           THEN /\ pc' = [pc EXCEPT ![c] = "rename_2"]
                /\ UNCHANGED <<out, req>>
           ELSE /\ pc' = [pc EXCEPT ![c] = "idle"]
                /\ req' = [req EXCEPT ![c] = NoReq]
                /\ out' = Outcome(c, "update_asset_id", req[c].id,
                                  [exc |-> w.exc, ret |-> w.exc = ""])
        /\ racing' = {}

\* the client stops in the middle of a call: the process dies, the
\* connection is lost
Stop(c) ==
    /\ pc[c] # "idle"
    /\ pc' = [pc EXCEPT ![c] = "idle"]
    /\ req' = [req EXCEPT ![c] = NoReq]
    /\ out' = Outcome(c, req[c].op, req[c].id, [exc |-> E_Stopped, ret |-> FALSE])
    /\ racing' = {}
    /\ UNCHANGED <<store, nextId>>

RaceIds == {Id_A1, Id_B2}

\* a call of one round trip, by a client that is in no call
Single(c, A) == A /\ racing' = {} /\ UNCHANGED <<pc, req>>

RaceFrame == UNCHANGED <<now, scan, csv, retry, got, screen>>

RaceNext ==
    \/ \E c \in Clients, id \in RaceIds :
           AddCall(c, id, Name_Lap, NoKw) /\ RaceFrame
    \/ \E c \in Clients : AddInsert(c) /\ RaceFrame
    \/ \E c \in Clients : Stop(c) /\ RaceFrame
    \/ \E c \in Clients, id \in RaceIds :
           Single(c, DeleteItem(c, id)) /\ RaceFrame

SpecRace == Init /\ [][RaceNext]_vars

----------------------------------------------------------------------------
(* One session whose update_asset_id is a sequence of round trips and may *)
(* stop between them                                                       *)

RenameNext ==
    \/ \E c \in Session, id \in RaceIds, kw \in {NoKw, Kw_Full} :
           /\ AddItem(c, id, Name_Lap, kw)
           /\ UNCHANGED <<pc, req, racing>> /\ RaceFrame
    \/ \E c \in Session, id \in RaceIds, f \in {File(<<1>>)} :
           /\ AddImage(c, id, f)
           /\ UNCHANGED <<pc, req, racing>> /\ RaceFrame
    \/ \E c \in Session, id \in RaceIds :
           /\ DeleteItem(c, id)
           /\ UNCHANGED <<pc, req, racing>> /\ RaceFrame
    \/ \E c \in Session, old \in RaceIds, new \in RaceIds :
           RenameCall(c, old, new) /\ RaceFrame
    \/ \E c \in Session : RenameStep(c) /\ RaceFrame
    \/ \E c \in Session : Stop(c) /\ RaceFrame

SpecRename == Init /\ [][RenameNext]_vars

----------------------------------------------------------------------------
(* Claims on the single session *)

\* C1: after any sequence of add_item, update_item, update_asset_id,
\* delete_item, add_image and remove_image calls, successful or failed, no two
\* records of the store have the same asset_id.
C1_AssetIdUnique ==
    \A d \in store, e \in store : d.asset_id = e.asset_id => d = e

\* two records stored, after an update_item that tried to give one the
\* asset_id of the other and was refused by the index
C1_Witness ==
    /\ Cardinality(store) = 2
    /\ out["c1"].op = "update_item" /\ out["c1"].exc = E_DuplicateKey

\* the attributes of an asset record, without the store's "_id" and the image
DataFields ==
    {"asset_id", "item_name", "description", "location", "department",
     "purchase_price", "quantity", "condition", "model_number",
     "serial_number", "status", "notes", "last_updated"}

Data(d) == [f \in DOMAIN d \cap DataFields |-> d[f]]

\* valid input of add_item: id and name not blank, price and quantity numbers,
\* the price not negative, the quantity a whole number that is not negative
ValidAdd(asset_id, item_name, kw) ==
    /\ strip(asset_id) # <<>>
    /\ strip(item_name) # <<>>
    /\ "purchase_price" \in DOMAIN kw =>
           kw.purchase_price.k = "num" /\ kw.purchase_price.v >= 0
    /\ "quantity" \in DOMAIN kw =>
           /\ kw.quantity.k = "num"
           /\ kw.quantity.v >= 0
           /\ kw.quantity.v % 100 = 0

\* what the claim expects get_item to return after such an add at time t
ExpectedAdded(asset_id, item_name, kw, t) ==
    [f \in DataFields |->
        IF f = "asset_id" THEN asset_id
        ELSE IF f = "item_name" THEN item_name
        ELSE IF f = "last_updated" THEN get_formatted_time(t)
        ELSE IF f = "purchase_price"
             THEN (IF f \in DOMAIN kw THEN kw[f].v ELSE 0)
        ELSE IF f = "quantity"
             THEN (IF f \in DOMAIN kw THEN kw[f].v \div 100 ELSE 1)
        ELSE IF f \in DOMAIN kw THEN kw[f]
        ELSE IF f = "condition" THEN S_New
        ELSE IF f = "status" THEN S_Available
        ELSE S_Empty]

\* C2: add_item of an id not yet stored, with valid values, succeeds, and
\* get_item on that id then returns one record whose attributes are the supplied
\* ones, the defaults for the omitted ones (condition New, status Available,
\* quantity 1, price 0.0, texts empty) and last_updated stamped at that add.
C2_AddThenGet ==
    [][\A c \in Session, id \in CrudIds, n \in CrudNames, kw \in AddKws :
          (AddItem(c, id, n, kw) /\ get_item(store, id) = {} /\ ValidAdd(id, n, kw))
          => /\ out'[c].exc = "" /\ out'[c].ret
             /\ Cardinality(get_item(store', id)) = 1
             /\ \A g \in get_item(store', id) :
                    Data(g) = ExpectedAdded(id, n, kw, now)]_vars

\* a state after a successful add whose record shows defaults, and one whose
\* record shows supplied values
C2_Witness ==
    /\ out["c1"].op = "add_item" /\ out["c1"].exc = ""
    /\ \E g \in get_item(store, out["c1"].id) :
           g.status = S_Available /\ g.quantity = 1
    /\ \E d \in store : d.purchase_price = 99999 /\ d.quantity = 2

\* C3: add_item with an asset_id a stored record already has fails with the
\* "already exists" error and leaves the store as it was.
C3_DuplicateAddRejected ==
    [][\A c \in Session, id \in CrudIds, n \in CrudNames, kw \in AddKws :
          (AddItem(c, id, n, kw) /\ find_one(store, id) # {})
          => out'[c].exc = E_Exists /\ ~out'[c].ret /\ store' = store]_vars

C3_Witness ==
    /\ out["c1"].op = "add_item" /\ out["c1"].exc = E_Exists
    /\ find_one(store, out["c1"].id) # {}

\* a record as the caller compares it: without the store's "_id"
NoId(d) == [f \in DOMAIN d \ {"_id"} |-> d[f]]

\* C5: update_asset_id(A, B) with A stored, B not stored and A # B succeeds;
\* get_item(B) then returns a record equal to the original record of A in
\* every field except asset_id, which is B, and get_item(A) returns absence.
C5_RenameThenGet ==
    [][\A c \in Session, a \in KnownIds, b \in KnownIds :
          (/\ UpdateAssetId(c, a, b)
           /\ a # b /\ find_one(store, a) # {} /\ find_one(store, b) = {})
          => /\ out'[c].exc = ""
             /\ get_item(store', a) = {}
             /\ Cardinality(get_item(store', b)) = 1
             /\ \A g \in get_item(store', b), o \in get_item(store, a) :
                    NoId(g) = [NoId(o) EXCEPT !.asset_id = b]]_vars

\* after a rename that moved a record with an image: nothing under the old id
C5_Witness ==
    /\ out["c1"].op = "update_asset_id" /\ out["c1"].exc = "" /\ out["c1"].ret
    /\ get_item(store, out["c1"].id) = {}
    /\ \E d \in store : "image" \in DOMAIN d

\* C8: export_to_csv on a store with zero records fails with the
\* "No items to export" error.
C8_ExportEmptyFails ==
    \A c \in Session :
        (out[c].op = "export_to_csv" /\ store = {}) => out[c].exc = E_NoItems

----------------------------------------------------------------------------
(* Claims on two clients *)

\* C4: when the add_item calls of two clients for the same asset_id, not yet
\* stored, overlap (both pre-checks pass before either insert), then however
\* the inserts are ordered exactly one call succeeds, the other fails with the
\* "already exists" error and not with the store's DuplicateKeyError, and the
\* store holds exactly one record of that id.
C4_RaceOneWinner ==
    (racing # {} /\ \A c \in racing : pc[c] = "idle")
    => \E w \in racing :
          /\ out[w].op = "add_item" /\ out[w].exc = "" /\ out[w].ret
          /\ Cardinality(Matching(store, out[w].id)) = 1
          /\ \A l \in racing \ {w} :
                 /\ out[l].op = "add_item" /\ out[l].id = out[w].id
                 /\ out[l].exc = E_Exists

\* both racing calls have returned
C4_Witness ==
    /\ racing = Clients
    /\ \A c \in Clients : pc[c] = "idle" /\ out[c].op = "add_item"
    /\ \E c \in Clients : out[c].exc = E_Exists

----------------------------------------------------------------------------
(* Claims on the rename in steps *)

\* the documents of the collection that hold the data of the record c's
\* rename fetched, under the old or the new id
Holding(coll, c) ==
    {d \in coll :
        /\ d.asset_id \in {req[c].id, req[c].new}
        /\ \E r \in req[c].rec :
               NoId(d) = [NoId(r) EXCEPT !.asset_id = d.asset_id]}

\* c takes a step of its rename (a write), and does not stop
RenameWriteStep(c) ==
    /\ pc[c] \in {"rename_1", "rename_2"}
    /\ pc'[c] # pc[c]
    /\ out'[c].exc # E_Stopped

\* c stops in the middle of its rename
RenameStopped(c) ==
    /\ pc[c] \in {"rename_1", "rename_2"}
    /\ pc'[c] = "idle"
    /\ out'[c].exc = E_Stopped

\* C6: during update_asset_id(old_id, new_id) the insert under new_id comes
\* before the delete of old_id: after every write of the rename the asset's
\* data is stored under at least one of the two ids, after the first write
\* under both, and a stop changes nothing, so that a stop between the two
\* writes leaves both records, never neither.
C6_InsertBeforeDelete ==
    [][\A c \in Session :
          /\ RenameWriteStep(c) => Holding(store', c) # {}
          /\ (RenameWriteStep(c) /\ pc'[c] = "rename_2")
              => Cardinality(Holding(store', c)) = 2
          /\ RenameStopped(c)
              => /\ store' = store
                 /\ pc[c] = "rename_2" => Cardinality(Holding(store, c)) = 2]_vars

\* a rename stopped between its writes: the record is there under both ids
C6_Witness ==
    \E c \in Session :
        /\ out[c].op = "update_asset_id" /\ out[c].exc = E_Stopped
        /\ pc[c] = "idle"
        /\ \E d \in store, e \in store :
               /\ d.asset_id = out[c].id /\ e.asset_id # d.asset_id
               /\ NoId(e) = [NoId(d) EXCEPT !.asset_id = e.asset_id]

----------------------------------------------------------------------------
(* Claims on search_items *)

\* the instant a record was created or last updated at
TouchedAt(item) ==
    CHOOSE t \in Instants : get_formatted_time(t) = item.last_updated

\* C7: search_items returns the matching records most recently touched first:
\* no record of the concatenated pages comes before one that was created or
\* last updated at a strictly later time.
C7_MostRecentFirst ==
    ScanDone =>
        \A i \in 1..Len(scan.items), j \in 1..Len(scan.items) :
            i < j => ~Before(TouchedAt(scan.items[i]), TouchedAt(scan.items[j]))

\* the "_id"s, as strings, of a set of documents and of a list of items
IdsOf(docs) == {<<48 + d["_id"]>> : d \in docs}
ItemIds(items) == {items[i]["_id"] : i \in 1..Len(items)}

\* C9: with the store unchanged between the calls, the items of the pages
\* 1..total_pages of a search, taken together, are every matching record
\* exactly once, also when matching records have equal last_updated values.
C9_PagesPartition ==
    ScanDone =>
        /\ Len(scan.items) = Cardinality(Query(store, scan.term))
        /\ ItemIds(scan.items) = IdsOf(Query(store, scan.term))

\* sub is a substring of s, letter case ignored
ContainsText(sub, s) ==
    \E i \in 1..Len(s) + 1 :
        /\ i + Len(sub) - 1 <= Len(s)
        /\ \A k \in 1..Len(sub) : lower(sub[k]) = lower(s[i + k - 1])

\* s starts with sub, letter case ignored
StartsWithText(sub, s) ==
    /\ Len(sub) <= Len(s)
    /\ \A k \in 1..Len(sub) : lower(sub[k]) = lower(s[k])

\* the records the claim says a term matches (the term without the blanks
\* around it)
ClaimedMatches(coll, term) ==
    IF strip(term) = <<>> THEN coll
    ELSE {d \in coll :
            \/ \E f \in ContainsFields : ContainsText(strip(term), d[f])
            \/ \E f \in StartsFields : StartsWithText(strip(term), d[f])}

\* C10: the records search_items matches are all records when the term is
\* blank, and otherwise exactly those where one of asset_id, item_name,
\* description, location, department, model_number, serial_number contains
\* the term, or status or condition starts with it, letter case ignored:
\* total_items counts them, and a result of one page holds exactly them.
C10_MatchedSet ==
    scan.on =>
        /\ scan.total_items = Cardinality(ClaimedMatches(store, scan.term))
        /\ scan.total_pages <= 1 =>
               ItemIds(scan.items) = IdsOf(ClaimedMatches(store, scan.term))

----------------------------------------------------------------------------
(* Claims on single pages of search_items *)

\* the least number of pages of k items that hold n items
Ceil(n, k) == CHOOSE q \in 0..n : q * k >= n /\ (q = 0 \/ (q - 1) * k < n)

\* C11: for every page number greater than the last valid page, search_items
\* raises no error and returns an empty item list, the total_items page 1
\* reports and total_pages = ceil(total_items / per_page).
C11_OutOfRangePage ==
    [][\A c \in Session, term \in PageTerms, page \in Pages, per_page \in PerPages :
          (/\ out'[c].op = "search_items" /\ out'[c].id = term
           /\ page > Ceil(Cardinality(Query(store, term)), per_page)
           /\ SearchPage(c, term, page, per_page))
          => /\ out'[c].exc = ""
             /\ scan'.on /\ scan'.page = page
             /\ scan'.items = <<>>
             /\ \A o \in SortedDescending(Query(store, term)) :
                    scan'.total_items =
                        search_items(store, term, 1, per_page, o).total_items
             /\ scan'.total_pages = Ceil(scan'.total_items, per_page)]_vars

\* a page past the last of a search that matches records
C11_Witness ==
    /\ out["c1"].op = "search_items" /\ out["c1"].exc = ""
    /\ scan.on /\ scan.page > scan.total_pages
    /\ scan.total_items > 0 /\ scan.items = <<>>

----------------------------------------------------------------------------
(* Claims on update_item, update_asset_id, add_item and delete_item *)

\* C12: update_item on an asset_id that no stored record has fails with the
\* "not found" error and creates no record: the store is the same before and
\* after the call.
C12_UpdateMissingFails ==
    [][\A c \in Session, id \in KnownIds, kw \in UpdateKws :
          (/\ out'[c].op = "update_item" /\ out'[c].id = id
           /\ Matching(store, id) = {}
           /\ UpdateItem(c, id, kw))
          => /\ out'[c].exc = E_NotFound /\ ~out'[c].ret
             /\ store' = store]_vars

\* an update of an id that is not stored, refused, with another record stored
C12_Witness ==
    /\ out["c1"].op = "update_item" /\ out["c1"].exc = E_NotFound
    /\ store # {} /\ Matching(store, out["c1"].id) = {}

\* the record the claim expects after update_item(kw) at time t: the supplied
\* fields at the supplied values, last_updated stamped, the others as before
Merged(old, kw, t) ==
    [f \in DOMAIN old \cup DOMAIN kw |->
        IF f = "last_updated" THEN get_formatted_time(t)
        ELSE IF f \in DOMAIN kw THEN kw[f]
        ELSE old[f]]

\* the supplied fields give the record the asset_id of another record
Collides(coll, id, kw) ==
    /\ "asset_id" \in DOMAIN kw
    /\ kw.asset_id # id
    /\ Matching(coll, kw.asset_id) # {}

C14_RenameErrors ==
    [][\A c \in Session, a \in KnownIds, b \in KnownIds :
          (out'[c].op = "update_asset_id" /\ out'[c].id = a /\ UpdateAssetId(c, a, b))
          => /\ a = b => (out'[c].exc = "" /\ out'[c].ret /\ store' = store)
             /\ (a # b /\ Matching(store, b) # {})
                => (out'[c].exc = E_Exists /\ store' = store)
             /\ (a # b /\ Matching(store, b) = {} /\ Matching(store, a) = {})
                => (out'[c].exc = E_NotFound /\ store' = store)]_vars

\* a rename onto the id of another record, refused
C14_Witness ==
    /\ out["c1"].op = "update_asset_id" /\ out["c1"].exc = E_Exists
    /\ Cardinality(store) = 2

\* the errors add_item raises for bad input
ValidationErrors == {E_IdRequired, E_NameRequired, E_NotNumeric}

\* asset_id blank, item_name blank, or purchase_price or quantity no number
InvalidAdd(asset_id, item_name, kw) ==
    \/ strip(asset_id) = <<>>
    \/ strip(item_name) = <<>>
    \/ "purchase_price" \in DOMAIN kw /\ kw.purchase_price.k # "num"
    \/ "quantity" \in DOMAIN kw /\ kw.quantity.k # "num"

\* C15 as stated: add_item fails with a validation error and inserts nothing
\* whenever asset_id is blank, item_name is blank, or purchase_price or
\* quantity is not numeric.
C15_InvalidAddRejected_AsStated ==
    [][\A c \in Session, id \in CrudIds, n \in CrudNames, kw \in AddKws :
          (/\ out'[c].op = "add_item" /\ out'[c].id = id
           /\ InvalidAdd(id, n, kw)
           /\ AddItem(c, id, n, kw))
          => /\ out'[c].exc \in ValidationErrors
             /\ store' = store]_vars

\* C15, amended: add_item fails and inserts nothing whenever asset_id is
\* blank, item_name is blank, or purchase_price or quantity is not numeric;
\* the failure is a validation error unless a record with that asset_id is
\* stored, and then it is the "already exists" error of the check of the id,
\* which comes first.
C15_InvalidAddRejected ==
    [][\A c \in Session, id \in CrudIds, n \in CrudNames, kw \in AddKws :
          (/\ out'[c].op = "add_item" /\ out'[c].id = id
           /\ InvalidAdd(id, n, kw)
           /\ AddItem(c, id, n, kw))
          => /\ ~out'[c].ret
             /\ store' = store
             /\ out'[c].exc \in
                    IF Matching(store, id) # {} THEN {E_Exists}
                    ELSE ValidationErrors]_vars

\* an add with a price that is no number, refused, with a record stored
C15_Witness ==
    /\ out["c1"].op = "add_item" /\ out["c1"].exc = E_NotNumeric
    /\ store # {} /\ Matching(store, out["c1"].id) = {}

\* C17: delete_item on an asset_id with no stored record fails with the "not
\* found" error and leaves the store unchanged; on a stored asset_id it
\* removes exactly that record (get_item then returns absence) and leaves
\* every other record unchanged.
C17_DeleteItem ==
    [][\A c \in Session, id \in KnownIds :
          (out'[c].op = "delete_item" /\ out'[c].id = id /\ DeleteItem(c, id))
          => IF Matching(store, id) = {}
             THEN out'[c].exc = E_NotFound /\ store' = store
             ELSE /\ out'[c].exc = "" /\ out'[c].ret
                  /\ get_item(store', id) = {}
                  /\ store' = store \ Matching(store, id)
                  /\ Cardinality(store') = Cardinality(store) - 1]_vars

\* after a delete that removed one record of two
C17_Witness ==
    /\ out["c1"].op = "delete_item" /\ out["c1"].exc = "" /\ out["c1"].ret
    /\ Cardinality(store) = 1
    /\ get_item(store, out["c1"].id) = {}

----------------------------------------------------------------------------
(* Claims on the retry wrapper and on the errors a caller sees *)

MutatingOps ==
    {"add_item", "update_item", "delete_item", "update_asset_id", "add_image",
     "remove_image"}

\* C18: every mutating store operation runs under the retry wrapper: a
\* transient failure of the backend on its first attempt is retried and not
\* surfaced to the caller, so a call that surfaces one has run more than once.
C18_WritesAreRetried ==
    \A c \in Session :
        (out[c].op \in MutatingOps /\ out[c].exc = E_AutoReconnect)
        => retry.calls > 1

\* C19: an operation wrapped by retry_operation is attempted at most
\* max_attempts times; the first attempt that succeeds ends the call, every
\* attempt before it having failed and been followed by one wait; the wait
\* before attempt k+1 is delay*k; and when every attempt raises a retryable
\* error the call ends with the last error after max_attempts attempts and
\* max_attempts - 1 waits, none after the final attempt.
C19_BoundedRetry ==
    \A c \in Session :
        /\ retry.calls <= max_attempts
        /\ retry.slept = [k \in 1..Len(retry.slept) |-> delay * k]
        /\ pc[c] = "wrapper"
           => /\ retry.calls < max_attempts
              /\ Len(retry.slept) = retry.calls
        /\ (pc[c] = "idle" /\ out[c].op = "add_item" /\ retry.calls > 0)
           => /\ Len(retry.slept) = retry.calls - 1
              /\ Retryable(out[c].exc)
                 => /\ retry.calls = max_attempts
                    /\ out[c].exc = retry.last_error

\* every attempt failed: three attempts, waits of 1 and 2 seconds, the error
C19_Witness ==
    /\ pc["c1"] = "idle" /\ out["c1"].op = "add_item"
    /\ out["c1"].exc = E_AutoReconnect
    /\ retry.calls = max_attempts
    /\ retry.slept = <<delay, delay + delay>>

\* the errors of the code that stand for the kinds of section 7: ValueError
\* with the message of a validation, a conflict or a missing target; the
\* code has no form of ConnectivityError, AuthenticationError or
\* TransientStoreError
ErrorKinds ==
    {E_IdRequired, E_NameRequired, E_NotNumeric, E_NoItems, E_Exists, E_NotFound}

\* C20: every failure a store operation surfaces to its caller is one of the
\* error kinds of section 7 and no raw exception of the backend, also after
\* the retries of add_item are exhausted and when the probe of the
\* construction fails.
C20_NoRawBackendError ==
    \A c \in Session : out[c].exc = "" \/ out[c].exc \in ErrorKinds

\* the other values of condition and status
S_Fair == <<70, 97, 105, 114>>
S_Poor == <<80, 111, 111, 114>>
S_UnderMaintenance ==
    <<85, 110, 100, 101, 114, 32, 77, 97, 105, 110, 116, 101, 110, 97, 110, 99, 101>>
S_Retired == <<82, 101, 116, 105, 114, 101, 100>>

\* C16: after any sequence of store operations every stored record satisfies
\* the constraints of the data model: item_name non-empty, purchase_price not
\* negative, quantity a whole number >= 0, condition one of New, Good, Fair,
\* Poor, status one of Available, In Use, Under Maintenance, Retired.
C16_DataModelConstraints ==
    \A d \in store :
        /\ d.item_name # <<>>
        /\ d.purchase_price >= 0
        /\ d.quantity \in Nat
        /\ d.condition \in {S_New, S_Good, S_Fair, S_Poor}
        /\ d.status \in {S_Available, S_InUse, S_UnderMaintenance, S_Retired}

----------------------------------------------------------------------------
(* Claims on get_statistics and on the images *)

\* the sum of the counts of a grouping
RECURSIVE SumCounts(_)
SumCounts(m) ==
    IF DOMAIN m = {} THEN 0
    ELSE LET k == CHOOSE x \in DOMAIN m : TRUE
         IN  m[k] + SumCounts([j \in DOMAIN m \ {k} |-> m[j]])

\* the sum of the prices of the records, one term per "_id"
RECURSIVE TotalPrice(_, _)
TotalPrice(coll, n) ==
    IF n = 0 THEN 0
    ELSE TotalPrice(coll, n - 1)
         + (IF \E d \in coll : d["_id"] = n
            THEN (CHOOSE d \in coll : d["_id"] = n).purchase_price ELSE 0)

\* the records whose field is empty or blank
BlankIn(coll, field) == {d \in coll : strip(d[field]) = <<>>}

\* C21: get_statistics on a store with N records returns total_items = N,
\* total_value the sum of purchase_price over all records, and department and
\* condition maps with no empty or blank key, whose counts sum to N minus the
\* number of records whose department (condition) is empty or blank.
C21_Statistics ==
    [][\A c \in Session :
          (out'[c].op = "get_statistics" /\ GetStatistics(c))
          => LET s == got'.val IN
             /\ s.total_items = Cardinality(store)
             /\ s.total_value = TotalPrice(store, nextId)
             /\ \A k \in DOMAIN s.items_by_department : strip(k) # <<>>
             /\ \A k \in DOMAIN s.items_by_condition : strip(k) # <<>>
             /\ SumCounts(s.items_by_department)
                    = Cardinality(store \ BlankIn(store, "department"))
             /\ SumCounts(s.items_by_condition)
                    = Cardinality(store \ BlankIn(store, "condition"))]_vars

----------------------------------------------------------------------------
(* Claims on export_to_csv, last_updated and identity *)

\* the row the claim expects for a record
ExpectedRow(d) == [f \in DataFields |-> IF f \in DOMAIN d THEN d[f] ELSE S_Empty]

\* C22: export_to_csv on a store with N >= 1 records writes a header equal to
\* the fixed column list, followed by exactly N rows, one per record, in which
\* a field the record lacks is the empty string and the internal identity and
\* the image never appear.
C22_CsvContents ==
    (csv.written /\ store # {})
    => /\ csv.header =
              <<"asset_id", "item_name", "description", "location",
                "department", "purchase_price", "quantity", "condition",
                "model_number", "serial_number", "status", "notes",
                "last_updated">>
       /\ Len(csv.rows) = Cardinality(store)
       /\ \A d \in store : \E i \in 1..Len(csv.rows) : csv.rows[i] = ExpectedRow(d)
       /\ \A i \in 1..Len(csv.rows) :
              /\ DOMAIN csv.rows[i] = DataFields
              /\ "_id" \notin DOMAIN csv.rows[i] /\ "image" \notin DOMAIN csv.rows[i]

\* an export of two records, one of them with an image
C22_Witness ==
    /\ csv.written /\ out["c1"].op = "export_to_csv" /\ out["c1"].exc = ""
    /\ Cardinality(store) = 2 /\ Len(csv.rows) = 2
    /\ \E d \in store : "image" \in DOMAIN d

\* the strings get_formatted_time can give
Stamps == {get_formatted_time(t) : t \in Instants}

\* C25: the last_updated of a record is always the store's own timestamp,
\* taken during the latest successful add_item or update_item on it: such a
\* call stamps the record with the time of the call, every other step leaves
\* the stamp of every record as it was (a rename carries it over), and a
\* last_updated passed by the caller is never stored.
C25_LastUpdatedStoreAssigned ==
    [][\A c \in Session :
          /\ \A e \in store' :
                /\ e.last_updated \in Stamps
                /\ \/ \E d \in store :
                         d["_id"] = e["_id"] /\ d.last_updated = e.last_updated
                   \/ /\ out'[c].op = "update_asset_id"
                      /\ \E d \in store :
                            d.asset_id = out'[c].id /\ d.last_updated = e.last_updated
                   \/ /\ out'[c].op \in {"add_item", "update_item"}
                      /\ out'[c].exc = ""
                      /\ e.last_updated = get_formatted_time(now)
          /\ (out'[c].op = "add_item" /\ out'[c].exc = "" /\ nextId' # nextId)
             => \A e \in store' \ store : e.last_updated = get_formatted_time(now)
          /\ (/\ out'[c].op = "update_item" /\ out'[c].exc = ""
              /\ \E kw \in UpdateKws : UpdateItem(c, out'[c].id, kw))
             => \A d \in Matching(store, out'[c].id) :
                    \E e \in store' :
                        /\ e["_id"] = d["_id"]
                        /\ e.last_updated = get_formatted_time(now)]_vars

\* after an update_item that passed a last_updated of its own, on the second
\* day, on the only record, created with the defaults
C25_Witness ==
    /\ out["c1"].op = "update_item" /\ out["c1"].exc = ""
    /\ Cardinality(store) = 1 /\ now.d = 2
    /\ \A d \in store :
           /\ d.status = S_InUse /\ d.condition = S_New
           /\ d.last_updated = get_formatted_time(now)

\* C28: update_item never changes a record's identity: for every existing id
\* and every supplied field map, one that names asset_id included, the set of
\* asset_ids in the store is the same before and after the call.
C28_UpdateKeepsIdentity ==
    [][\A c \in Session, id \in KnownIds, kw \in UpdateKws :
          (/\ out'[c].op = "update_item" /\ out'[c].id = id
           /\ Matching(store, id) # {}
           /\ UpdateItem(c, id, kw))
          => {d.asset_id : d \in store'} = {d.asset_id : d \in store}]_vars

\* C27: whenever add_item surfaces a failure to its caller, that call
\* inserted no record: the records of that asset_id are those of the
\* beginning of the call, and a duplicate-id failure is reported only if one
\* existed then, also when a transient error is raised after the insert was
\* applied and the wrapper runs the operation again.
C27_FailedAddInsertsNothing ==
    [][\A c \in Session :
          (pc[c] = "wrapper" /\ pc'[c] = "idle" /\ out'[c].exc # "")
          => /\ Matching(store', req[c].id) = req[c].rec
             /\ out'[c].exc = E_Exists => req[c].rec # {}]_vars

----------------------------------------------------------------------------
(* Claims on add_image, get_image and remove_image *)

\* the record of that id has an image
HasImage(coll, id) == \E d \in Matching(coll, id) : "image" \in DOMAIN d

\* the records of the other ids
Others(coll, id) == {d \in coll : d.asset_id # id}

\* C23: for any stored record and any byte string, add_image makes a
\* following get_image return exactly those bytes, whether the record had no
\* image or a different one before, and its return value tells whether a
\* record was modified; for an asset_id with no record it creates no record
\* and reports that nothing was modified.
C23_AddImageThenGet ==
    [][\A c \in Session, id \in KnownIds, f \in ReadFiles :
          (out'[c].op = "add_image" /\ out'[c].id = id /\ AddImage(c, id, f))
          => IF Matching(store, id) # {}
             THEN /\ out'[c].exc = ""
                  /\ get_image(store', id) = {f.data}
                  /\ out'[c].ret = (store' # store)
                  /\ Others(store', id) = Others(store, id)
                  /\ Cardinality(store') = Cardinality(store)
             ELSE /\ out'[c].exc = "" /\ ~out'[c].ret
                  /\ store' = store]_vars

\* get_image gave the bytes 1 for a record; add_image then put the bytes 2
C23_Witness ==
    /\ got.op = "get_image" /\ got.val = {<<1>>}
    /\ out["c1"].op = "add_image" /\ out["c1"].id = got.id /\ out["c1"].ret
    /\ get_image(store, got.id) = {<<2>>}

\* C24: get_image returns absence without error when the record does not
\* exist or has no image; after remove_image on a stored record get_image
\* for it returns absence and every other attribute of that record is
\* unchanged; remove_image on a record without an image or on a missing id
\* changes nothing and raises no error.
C24_GetAndRemoveImage ==
    [][\A c \in Session, id \in KnownIds :
          /\ (out'[c].op = "get_image" /\ out'[c].id = id /\ GetImage(c, id))
             => /\ out'[c].exc = ""
                /\ ~HasImage(store, id) => got'.val = {}
          /\ (out'[c].op = "remove_image" /\ out'[c].id = id /\ RemoveImage(c, id))
             => /\ out'[c].exc = ""
                /\ get_image(store', id) = {}
                /\ Others(store', id) = Others(store, id)
                /\ ~HasImage(store, id) => store' = store
                /\ \A d \in Matching(store, id) :
                       \E e \in Matching(store', id) :
                           /\ DOMAIN e = DOMAIN d \ {"image"}
                           /\ \A g \in DOMAIN e : e[g] = d[g]]_vars

\* get_image gave bytes for a record; remove_image then took them away and
\* the record is still there
C24_Witness ==
    /\ got.op = "get_image" /\ got.val # {}
    /\ out["c1"].op = "remove_image" /\ out["c1"].id = got.id /\ out["c1"].ret
    /\ Matching(store, got.id) # {}
    /\ get_image(store, got.id) = {}

----------------------------------------------------------------------------
(* Claims on the items of search_items *)

\* the stored records an item of a result stands for
StoredOf(item) == {d \in store : <<48 + d["_id"]>> = item["_id"]}

\* C26: no item returned by search_items contains the image attribute, for
\* any term, page and store state, records with an image attached included.
C26_NoImageInItems ==
    scan.on => \A i \in 1..Len(scan.items) : "image" \notin DOMAIN scan.items[i]

\* a result that shows a record that has an image
C26_Witness ==
    /\ scan.on /\ out["c1"].op = "search_items"
    /\ \E i \in 1..Len(scan.items) :
           \E d \in StoredOf(scan.items[i]) : "image" \in DOMAIN d

\* C29: every item returned by search_items carries all attributes of its
\* stored record other than image (asset_id, item_name, description,
\* location, department, purchase_price, quantity, condition, model_number,
\* serial_number, status, notes, last_updated) with the stored values.
C29_ItemsCarryAllAttributes ==
    scan.on =>
        \A i \in 1..Len(scan.items) :
            /\ StoredOf(scan.items[i]) # {}
            /\ \A d \in StoredOf(scan.items[i]) :
                   \A f \in DataFields \cap DOMAIN d :
                       /\ f \in DOMAIN scan.items[i]
                       /\ scan.items[i][f] = d[f]

----------------------------------------------------------------------------
(* Claims on the search screen *)

Max(a, b) == IF a > b THEN a ELSE b

\* C30: in the search screen, after any sequence of search, search-text
\* change, next-page, previous-page, delete-and-refresh and edit-and-refresh
\* events, 1 <= current_page <= max(1, total_pages), total_pages being the
\* value the latest search returned.
C30_CurrentPageInRange ==
    /\ 1 <= screen.current_page
    /\ screen.current_page <= Max(1, screen.total_pages)

====
